---- MODULE Spec2Model ----
(***************************************************************************)
(* The code generation pipeline of the Verona compiler                     *)
(* (src/compiler/codegen/codegen.cc): entry point resolution, header,      *)
(* descriptor and function emission, and the final fixup pass.             *)
(*                                                                         *)
(* A std::optional<T> is a sequence of length 0 (nullopt) or 1.            *)
(***************************************************************************)
EXTENDS Integers, Sequences, FiniteSets, TLC

VARIABLES
  prog,        \* the Program handed to codegen (read only)
  pc,          \* position of the run inside codegen()
  entry,       \* optional result of find_entry
  diags,       \* diagnostics printed through the Context, in order
  lineDiags,   \* number of print_line_diagnostic calls (source line echo)
  reach,       \* Reachability::entities, in iteration order
  selectors,   \* SelectorTable: sequence of selector names, index = position - 1
  gen,         \* Generator state: code buffer, labels, relocations
  index,       \* emit_descriptors' local counter `index`
  fpos,        \* emit_functions' iteration position (over the flattened loops)
  trace,       \* history: the calls made so far, in order
  fault,       \* reason of an abnormal exit ("" when none)
  result,      \* optional return value of codegen (a byte sequence)
  wpc,         \* count-only abstraction: position
  wn,          \* count-only abstraction: reachability.entities.size()
  windex,      \* count-only abstraction: emit_descriptors' `index`
  wcount       \* count-only abstraction: optional 16-bit count in the header

vars == <<prog, pc, entry, diags, lineDiags, reach, selectors, gen, index,
          fpos, trace, fault, result, wpc, wn, windex, wcount>>

pipeVars == <<prog, pc, entry, diags, lineDiags, reach, selectors, gen, index,
              fpos, trace, fault, result>>

wideVars == <<wpc, wn, windex, wcount>>

(***************************************************************************)
(* Bounds and constants                                                    *)
(***************************************************************************)
\* Greatest number of entities of the program besides Main.
MaxExtra == 3

\* std::numeric_limits<uint16_t>::max()
U16Max == 65535

\* Entity::Kind
EntityKinds == {"Class", "Interface", "Primitive"}

(***************************************************************************)
(* Programs                                                                *)
(*                                                                         *)
(* Main, when present, is entity 0 and its method main is method 0.        *)
(* Every other entity i (1..Len(extras)) declares one method, method i,    *)
(* named "m": with a body it is called statically from main's body and its *)
(* class is allocated there; without a body it is called virtually.        *)
(* `referenced` tells whether main's body mentions the entity at all.      *)
(***************************************************************************)
Signatures ==
  [generics : 0..1, receiver : BOOLEAN, arguments : 0..1, return_type : {"unit", "U64"}]

NoSignature == [generics |-> 0, receiver |-> FALSE, arguments |-> 0, return_type |-> "unit"]

ExtraEntities == [hasBody : BOOLEAN, referenced : BOOLEAN]

ExtraSeqs == UNION {[1..n -> ExtraEntities] : n \in 0..MaxExtra}

Programs ==
  { p \in [hasMain : BOOLEAN, kind : EntityKinds, generics : 0..1,
           hasMethod : BOOLEAN, signature : Signatures, hasBody : BOOLEAN,
           extras : ExtraSeqs] :
      /\ (~p.hasMain => p.kind = "Class" /\ p.generics = 0 /\ ~p.hasMethod)
      /\ (~p.hasMethod => p.signature = NoSignature /\ ~p.hasBody) }

\* CodegenItem<T>(definition, Instantiation::empty())
CodegenItem(definition) == [definition |-> definition, instantiation |-> <<>>]

(***************************************************************************)
(* Entry point resolution                                                  *)
(***************************************************************************)
is_valid_main_signature_noReceiver(signature) ==
  /\ signature.generics = 0
  /\ signature.arguments = 0
  /\ signature.return_type = "unit"

is_valid_main_signature(signature) ==
  /\ signature.generics = 0
  /\ signature.receiver = FALSE
  /\ signature.arguments = 0
  /\ signature.return_type = "unit"

Failure(diagnostic, lines) ==
  [entry |-> <<>>, diags |-> <<diagnostic>>, lines |-> lines]

\* find_entry with the method lookup moved before the generics check.
find_entry_methodFirst(p) ==
  IF ~p.hasMain THEN Failure("NoMainClass", 0)
  ELSE IF p.kind # "Class" THEN Failure("MainNotAClass", 1)
  ELSE IF ~p.hasMethod THEN Failure("NoMainMethod", 1)
  ELSE IF p.generics # 0 THEN Failure("MainClassIsGeneric", 1)
  ELSE IF ~is_valid_main_signature(p.signature)
    THEN Failure("InvalidMainSignature", 1)
  ELSE [entry |-> <<[class |-> CodegenItem(0), method |-> CodegenItem(0)]>>,
        diags |-> <<>>, lines |-> 0]

find_entry(p) ==
  IF ~p.hasMain THEN Failure("NoMainClass", 0)
  ELSE IF p.kind # "Class" THEN Failure("MainNotAClass", 1)
  ELSE IF p.generics # 0 THEN Failure("MainClassIsGeneric", 1)
  ELSE IF ~p.hasMethod THEN Failure("NoMainMethod", 1)
  ELSE IF ~is_valid_main_signature(p.signature)
    THEN Failure("InvalidMainSignature", 1)
  ELSE [entry |-> <<[class |-> CodegenItem(0), method |-> CodegenItem(0)]>>,
        diags |-> <<>>, lines |-> 0]

(***************************************************************************)
(* Relocatable generator                                                   *)
(*                                                                         *)
(* gen.code      the append-only byte buffer                               *)
(* gen.labels    one optional byte offset per label created so far         *)
(* gen.ordinals  one optional descriptor table slot per label              *)
(* gen.relocs    pending patches: buffer position and label referred to    *)
(***************************************************************************)
NewGenerator == [code |-> <<>>, labels |-> <<>>, ordinals |-> <<>>, relocs |-> <<>>]

u8bytes(v) == <<v % 256>>

u16bytes(v) == <<v % 256, (v \div 256) % 256>>

u32bytes(v) ==
  <<v % 256, (v \div 256) % 256, (v \div 65536) % 256, (v \div 16777216) % 256>>

\* The value held by the 16 bits at s[at+1], s[at+2].
read_u16(s, at) == s[at + 1] + 256 * s[at + 2]

\* The value held by the 32 bits at s[at+1] .. s[at+4].
read_u32(s, at) ==
  s[at + 1] + 256 * s[at + 2] + 65536 * s[at + 3] + 16777216 * s[at + 4]

gen_bytes(g, bytes) == [g EXCEPT !.code = @ \o bytes]

gen_u8(g, v) == gen_bytes(g, u8bytes(v))

gen_u16(g, v) == gen_bytes(g, u16bytes(v))

gen_u32(g, v) == gen_bytes(g, u32bytes(v))

\* Generator::u32(Label): a placeholder and a pending relocation.
gen_u32_label(g, label) ==
  [g EXCEPT !.code = @ \o <<0, 0, 0, 0>>,
            !.relocs = Append(@, [pos |-> Len(g.code), label |-> label])]

\* Generator::create_label: a fresh unbound label; its id is Len(labels).
create_label(g) ==
  [g EXCEPT !.labels = Append(@, <<>>), !.ordinals = Append(@, <<>>)]

is_bound(g, label) == g.labels[label] # <<>>

\* Generator::define_label: bind to the current end of the buffer.
define_label(g, label) == [g EXCEPT !.labels[label] = <<Len(g.code)>>]

\* Generator::define_relocatable: bind to the current end of the buffer and
\* register the label at slot `ordinal` of the descriptor table.
define_relocatable(g, label, ordinal) ==
  [g EXCEPT !.labels[label] = <<Len(g.code)>>, !.ordinals[label] = <<ordinal>>]

\* The referenced labels that are not bound.
UnboundReferences(g) ==
  {g.relocs[i].label : i \in {j \in 1..Len(g.relocs) : ~is_bound(g, g.relocs[j].label)}}

\* The relocation, if any, that covers buffer position k (1-based).
RelocAt(g, k) ==
  {i \in 1..Len(g.relocs) : g.relocs[i].pos < k /\ k <= g.relocs[i].pos + 4}

\* Generator::finish: overwrite every placeholder with its label's offset.
finish(g) ==
  [g EXCEPT !.code =
     [k \in 1..Len(g.code) |->
        IF RelocAt(g, k) = {} THEN g.code[k]
        ELSE LET r == g.relocs[CHOOSE i \in RelocAt(g, k) : TRUE]
             IN  u32bytes(g.labels[r.label][1])[k - r.pos]]]

\* truncate<uint16_t>: narrowing to 16 bits.
truncate16(v) == v % (U16Max + 1)

(***************************************************************************)
(* Reachability                                                            *)
(***************************************************************************)
MethodInfo(definition, name, hasBody, virtual, label) ==
  [method |-> CodegenItem(definition), name |-> name, hasBody |-> hasBody,
   virtual |-> virtual, label |-> label]

EntityInfo(definition, kind, descriptor, methods) ==
  [entity |-> CodegenItem(definition), kind |-> kind,
   descriptor |-> descriptor, methods |-> methods]

\* Adds entity `definition` with its one method: a fresh descriptor label, and
\* a fresh code label when the method has a body.
AddReachable(r, definition, kind, name, hasBody, virtual) ==
  LET g1 == create_label(r.gen)
      descriptor == Len(g1.labels)
      g2 == IF hasBody THEN create_label(g1) ELSE g1
      label == IF hasBody THEN <<Len(g2.labels)>> ELSE <<>>
  IN  [entities |-> Append(r.entities,
         EntityInfo(definition, kind, descriptor,
                    <<MethodInfo(definition, name, hasBody, virtual, label)>>)),
       gen |-> g2]

RECURSIVE Discover(_, _, _)
\* Work-list in first-discovered order over what main's body references.
Discover(r, p, i) ==
  IF i > Len(p.extras) THEN r
  ELSE IF p.extras[i].referenced
    THEN Discover(AddReachable(r, i,
                               IF p.extras[i].hasBody THEN "Class" ELSE "Interface",
                               "m", p.extras[i].hasBody, ~p.extras[i].hasBody),
                  p, i + 1)
    ELSE Discover(r, p, i + 1)

compute_reachability(g, main_class, main_method, p) ==
  LET seed == AddReachable([entities |-> <<>>, gen |-> g], main_class.definition,
                           p.kind, "main", p.hasBody, FALSE)
  IN  IF p.hasBody THEN Discover(seed, p, 1) ELSE seed

\* The (entity position, method position) pairs in iteration order of the
\* nested loops over entities and their methods.
RECURSIVE MethodsFrom(_, _)
MethodsFrom(r, e) ==
  IF e > Len(r) THEN <<>>
  ELSE [m \in 1..Len(r[e].methods) |-> [e |-> e, m |-> m]] \o MethodsFrom(r, e + 1)

ReachableMethods(r) == MethodsFrom(r, 1)

(***************************************************************************)
(* Selector table                                                          *)
(***************************************************************************)
InSeq(x, s) == \E i \in 1..Len(s) : s[i] = x

IndexOf(x, s) == CHOOSE i \in 1..Len(s) : s[i] = x

RECURSIVE CollectSelectors(_, _, _)
CollectSelectors(r, ms, acc) ==
  IF ms = <<>> THEN acc
  ELSE LET mi == r[Head(ms).e].methods[Head(ms).m]
       IN  CollectSelectors(r, Tail(ms),
             IF mi.virtual /\ ~InSeq(mi.name, acc) THEN Append(acc, mi.name) ELSE acc)

\* SelectorTable::build: first-seen order over the completed graph.
SelectorTable_build(r) == CollectSelectors(r, ReachableMethods(r), <<>>)

(***************************************************************************)
(* Emitters                                                                *)
(*                                                                         *)
(* Every emitter yields the new generator, the calls it made (for the      *)
(* history) and the reason it stopped abnormally, "" when it did not.      *)
(***************************************************************************)
Event(ev, id, arg) == [ev |-> ev, id |-> id, arg |-> arg]

Outcome(g, events, why) == [gen |-> g, events |-> events, fault |-> why]

KindTag(kind) == CASE kind = "Class" -> 0 [] kind = "Interface" -> 1 [] OTHER -> 2

\* The methods of `info` that implement selector `name` with code of their own.
Implementations(info, name) ==
  {j \in 1..Len(info.methods) :
     info.methods[j].name = name /\ info.methods[j].label # <<>>}

RECURSIVE DispatchTable(_, _, _, _)
DispatchTable(sel, g, info, i) ==
  IF i > Len(sel) THEN g
  ELSE LET impl == Implementations(info, sel[i])
           g1 == IF impl = {} THEN gen_bytes(g, <<255, 255, 255, 255>>)
                 ELSE gen_u32_label(g, info.methods[CHOOSE j \in impl : TRUE].label[1])
       IN  DispatchTable(sel, g1, info, i + 1)

\* emit_descriptor: kind tag, then one dispatch slot per selector.
emit_descriptor(sel, g, info) ==
  DispatchTable(sel, gen_u8(g, KindTag(info.kind)), info, 1)

RECURSIVE MainBody(_, _, _, _)
\* The body of Main.main: for every other reachable entity, allocate it and
\* call its method statically, or call its method through the selector.
MainBody(r, sel, g, e) ==
  IF e > Len(r) THEN g
  ELSE LET mi == r[e].methods[1]
           g1 == IF mi.label # <<>>
                 THEN gen_u32_label(gen_u8(gen_u32_label(gen_u8(g, 1), r[e].descriptor), 2),
                                    mi.label[1])
                 ELSE gen_u8(gen_u8(g, 3), IndexOf(mi.name, sel) - 1)
       IN  MainBody(r, sel, g1, e + 1)

\* emit_function: the bytecode of one method; every body ends with a return.
emit_function(r, sel, g, mi) ==
  IF mi.name = "main" THEN gen_u8(MainBody(r, sel, g, 2), 0) ELSE gen_u8(g, 0)

\* The 16-bit descriptor count of the header.
DescriptorCount(size) == truncate16(size)

emit_program_header(r, g, main_class, main_method) ==
  LET es == {i \in 1..Len(r) : r[i].entity = main_class}
      class_info == r[CHOOSE i \in es : TRUE]
      ms == {j \in 1..Len(class_info.methods) : class_info.methods[j].method = main_method}
      method_info == class_info.methods[CHOOSE j \in ms : TRUE]
  IN  IF es = {} \/ ms = {} THEN Outcome(g, <<>>, "out_of_range")
      ELSE IF method_info.label = <<>> THEN Outcome(g, <<>>, "bad_optional_access")
      ELSE Outcome(gen_u16(gen_u32_label(g, method_info.label[1]), DescriptorCount(Len(r))),
                   <<Event("emit_program_header", 0, Len(g.code))>>, "")

\* The loop body of emit_descriptors without the binding of the label.
emit_descriptors_body_noBind(sel, g, info, idx) ==
  Outcome(emit_descriptor(sel, g, info),
          <<Event("emit_descriptor", info.entity.definition, Len(g.code))>>, "")

\* The loop body of emit_descriptors.
emit_descriptors_body(sel, g, info, idx) ==
  IF is_bound(g, info.descriptor) THEN Outcome(g, <<>>, "label_rebound")
  ELSE Outcome(emit_descriptor(sel, define_relocatable(g, info.descriptor, idx), info),
               <<Event("define_relocatable", info.entity.definition, idx),
                 Event("emit_descriptor", info.entity.definition, Len(g.code))>>, "")

\* A loop body of emit_functions that emits the code without binding its label.
emit_functions_body_noLabel(r, sel, g, mi) ==
  IF ~mi.hasBody THEN Outcome(g, <<>>, "")
  ELSE IF mi.label = <<>> THEN Outcome(g, <<>>, "bad_optional_access")
  ELSE Outcome(emit_function(r, sel, g, mi),
               <<Event("emit_function", mi.method.definition, Len(g.code))>>, "")

\* The loop body of emit_functions.
emit_functions_body(r, sel, g, mi) ==
  IF ~mi.hasBody THEN Outcome(g, <<>>, "")
  ELSE IF mi.label = <<>> THEN Outcome(g, <<>>, "bad_optional_access")
  ELSE IF is_bound(g, mi.label[1]) THEN Outcome(g, <<>>, "label_rebound")
  ELSE Outcome(emit_function(r, sel, define_label(g, mi.label[1]), mi),
               <<Event("define_label", mi.method.definition, Len(g.code)),
                 Event("emit_function", mi.method.definition, Len(g.code))>>, "")

\* Generator::finish as codegen calls it.
gen_finish(g) ==
  IF UnboundReferences(g) # {} THEN Outcome(g, <<>>, "unbound_label")
  ELSE Outcome(finish(g), <<Event("finish", 0, Len(g.code))>>, "")

(***************************************************************************)
(* codegen                                                                 *)
(***************************************************************************)
\* codegen with the header emitted before the selector table is built.
Successor_headerFirst(step) ==
  CASE step = "find_entry" -> "compute_reachability"
    [] step = "compute_reachability" -> "emit_program_header"
    [] step = "emit_program_header" -> "build_selectors"
    [] step = "build_selectors" -> "emit_descriptors"
    [] step = "emit_descriptors" -> "emit_functions"
    [] step = "emit_functions" -> "finish"
    [] step = "finish" -> "return"
    [] OTHER -> "done"

\* The statement that follows `step` in codegen.
Successor(step) ==
  CASE step = "find_entry" -> "compute_reachability"
    [] step = "compute_reachability" -> "build_selectors"
    [] step = "build_selectors" -> "emit_program_header"
    [] step = "emit_program_header" -> "emit_descriptors"
    [] step = "emit_descriptors" -> "emit_functions"
    [] step = "emit_functions" -> "finish"
    [] step = "finish" -> "return"
    [] OTHER -> "done"

Init ==
  /\ prog \in Programs
  /\ pc = "find_entry"
  /\ entry = <<>>
  /\ diags = <<>>
  /\ lineDiags = 0
  /\ reach = <<>>
  /\ selectors = <<>>
  /\ gen = NewGenerator
  /\ index = 0
  /\ fpos = 0
  /\ trace = <<>>
  /\ fault = ""
  /\ result = <<>>
  /\ wpc = "off"
  /\ wn = 0
  /\ windex = 0
  /\ wcount = <<>>

\* auto entry = find_entry(context, program); if (!entry) return {};
FindEntry ==
  /\ pc = "find_entry"
  /\ LET r == find_entry(prog)
     IN  /\ entry' = r.entry
         /\ diags' = diags \o r.diags
         /\ lineDiags' = lineDiags + r.lines
         /\ result' = IF r.entry = <<>> THEN << <<>> >> ELSE result
         /\ pc' = IF r.entry = <<>> THEN "done" ELSE Successor("find_entry")
  /\ trace' = Append(trace, Event("find_entry", 0, Len(gen.code)))
  /\ UNCHANGED <<prog, reach, selectors, gen, index, fpos, fault>>
  /\ UNCHANGED wideVars

\* Generator gen(code); Reachability reachability = compute_reachability(...)
ComputeReachability ==
  /\ pc = "compute_reachability"
  /\ LET r == compute_reachability(gen, entry[1].class, entry[1].method, prog)
     IN  /\ reach' = r.entities
         /\ gen' = r.gen
  /\ trace' = Append(trace, Event("compute_reachability", 0, Len(gen.code)))
  /\ pc' = Successor("compute_reachability")
  /\ UNCHANGED <<prog, entry, diags, lineDiags, selectors, index, fpos, fault, result>>
  /\ UNCHANGED wideVars

\* SelectorTable selectors = SelectorTable::build(reachability);
BuildSelectors ==
  /\ pc = "build_selectors"
  /\ selectors' = SelectorTable_build(reach)
  /\ trace' = Append(trace, Event("build_selectors", 0, Len(gen.code)))
  /\ pc' = Successor("build_selectors")
  /\ UNCHANGED <<prog, entry, diags, lineDiags, reach, gen, index, fpos, fault, result>>
  /\ UNCHANGED wideVars

\* emit_program_header(reachability, gen, entry->first, entry->second);
EmitProgramHeader ==
  /\ pc = "emit_program_header"
  /\ LET o == emit_program_header(reach, gen, entry[1].class, entry[1].method)
     IN  /\ gen' = o.gen
         /\ trace' = trace \o o.events
         /\ fault' = o.fault
         /\ pc' = IF o.fault # "" THEN "aborted" ELSE Successor("emit_program_header")
  /\ index' = 0
  /\ UNCHANGED <<prog, entry, diags, lineDiags, reach, selectors, fpos, result>>
  /\ UNCHANGED wideVars

\* One iteration of the loop of emit_descriptors, or its exit.
EmitDescriptors ==
  /\ pc = "emit_descriptors"
  /\ IF index < Len(reach)
     THEN LET o == emit_descriptors_body(selectors, gen, reach[index + 1], index)
          IN  /\ gen' = o.gen
              /\ trace' = trace \o o.events
              /\ fault' = o.fault
              /\ pc' = IF o.fault # "" THEN "aborted" ELSE pc
              /\ index' = index + 1
              /\ fpos' = fpos
     ELSE /\ pc' = Successor("emit_descriptors")
          /\ fpos' = 0
          /\ UNCHANGED <<gen, trace, fault, index>>
  /\ UNCHANGED <<prog, entry, diags, lineDiags, reach, selectors, result>>
  /\ UNCHANGED wideVars

\* One iteration of the nested loops of emit_functions, or their exit.
EmitFunctions ==
  /\ pc = "emit_functions"
  /\ LET ms == ReachableMethods(reach)
     IN  IF fpos < Len(ms)
         THEN LET at == ms[fpos + 1]
                  o == emit_functions_body(reach, selectors, gen,
                                           reach[at.e].methods[at.m])
              IN  /\ gen' = o.gen
                  /\ trace' = trace \o o.events
                  /\ fault' = o.fault
                  /\ pc' = IF o.fault # "" THEN "aborted" ELSE pc
                  /\ fpos' = fpos + 1
         ELSE /\ pc' = Successor("emit_functions")
              /\ UNCHANGED <<gen, trace, fault, fpos>>
  /\ UNCHANGED <<prog, entry, diags, lineDiags, reach, selectors, index, result>>
  /\ UNCHANGED wideVars

\* gen.finish();
Finish ==
  /\ pc = "finish"
  /\ LET o == gen_finish(gen)
     IN  /\ gen' = o.gen
         /\ trace' = trace \o o.events
         /\ fault' = o.fault
         /\ pc' = IF o.fault # "" THEN "aborted" ELSE Successor("finish")
  /\ UNCHANGED <<prog, entry, diags, lineDiags, reach, selectors, index, fpos, result>>
  /\ UNCHANGED wideVars

\* codegen returning an empty vector in place of the buffer.
Return_empty ==
  /\ pc = "return"
  /\ result' = << <<>> >>
  /\ pc' = "done"
  /\ trace' = Append(trace, Event("return", 0, Len(gen.code)))
  /\ UNCHANGED <<prog, entry, diags, lineDiags, reach, selectors, gen, index, fpos, fault>>
  /\ UNCHANGED wideVars

\* return code;
Return ==
  /\ pc = "return"
  /\ result' = <<gen.code>>
  /\ pc' = "done"
  /\ trace' = Append(trace, Event("return", 0, Len(gen.code)))
  /\ UNCHANGED <<prog, entry, diags, lineDiags, reach, selectors, gen, index, fpos, fault>>
  /\ UNCHANGED wideVars

Next ==
  \/ FindEntry
  \/ ComputeReachability
  \/ BuildSelectors
  \/ EmitProgramHeader
  \/ EmitDescriptors
  \/ EmitFunctions
  \/ Finish
  \/ Return

Spec == Init /\ [][Next]_vars

(***************************************************************************)
(* Count-only abstraction of header and descriptor emission: the graph is  *)
(* represented by its size alone, so that sizes beyond 16 bits are covered.*)
(***************************************************************************)
IdleProgram ==
  [hasMain |-> FALSE, kind |-> "Class", generics |-> 0, hasMethod |-> FALSE,
   signature |-> NoSignature, hasBody |-> FALSE, extras |-> <<>>]

\* Sizes of the reachability graph; Main is always in it.
WideSizes == {1, 2, 3, U16Max, U16Max + 1}

InitWide ==
  /\ prog = IdleProgram
  /\ pc = "off"
  /\ entry = <<>>
  /\ diags = <<>>
  /\ lineDiags = 0
  /\ reach = <<>>
  /\ selectors = <<>>
  /\ gen = NewGenerator
  /\ index = 0
  /\ fpos = 0
  /\ trace = <<>>
  /\ fault = ""
  /\ result = <<>>
  /\ wpc = "emit_program_header"
  /\ wn \in WideSizes
  /\ windex = 0
  /\ wcount = <<>>

\* gen.u16(truncate<uint16_t>(reachability.entities.size()));
WideEmitProgramHeader ==
  /\ wpc = "emit_program_header"
  /\ wcount' = <<DescriptorCount(wn)>>
  /\ windex' = 0
  /\ wpc' = "emit_descriptors"
  /\ UNCHANGED wn
  /\ UNCHANGED pipeVars

\* One iteration of emit_descriptors: define_relocatable(..., index++).
WideEmitDescriptors ==
  /\ wpc = "emit_descriptors"
  /\ windex < wn
  /\ windex' = windex + 1
  /\ UNCHANGED <<wpc, wn, wcount>>
  /\ UNCHANGED pipeVars

\* The loop of emit_descriptors has visited every entity.
WideDescriptorsDone ==
  /\ wpc = "emit_descriptors"
  /\ windex = wn
  /\ wpc' = "done"
  /\ UNCHANGED <<wn, windex, wcount>>
  /\ UNCHANGED pipeVars

NextWide ==
  \/ WideEmitProgramHeader
  \/ WideEmitDescriptors
  \/ WideDescriptorsDone

SpecWide == InitWide /\ [][NextWide]_vars

(***************************************************************************)
(* Properties                                                              *)
(***************************************************************************)
Returned == pc = "done"

EntryFound == entry # <<>>

EventsOf(ev) == SelectSeq(trace, LAMBDA e : e.ev = ev)

EventsFor(ev, id) == SelectSeq(trace, LAMBDA e : e.ev = ev /\ e.id = id)

\* The four conditions of a valid signature of main.
ValidSignature(sig) ==
  sig.generics = 0 /\ ~sig.receiver /\ sig.arguments = 0 /\ sig.return_type = "unit"

\* The diagnostic of the first failing check, in the documented order.
FirstFailingCheck(p) ==
  CASE ~p.hasMain -> "NoMainClass"
    [] p.hasMain /\ p.kind # "Class" -> "MainNotAClass"
    [] p.hasMain /\ p.kind = "Class" /\ p.generics # 0 -> "MainClassIsGeneric"
    [] p.hasMain /\ p.kind = "Class" /\ p.generics = 0 /\ ~p.hasMethod -> "NoMainMethod"
    [] OTHER -> "InvalidMainSignature"

FailsValidation(p) ==
  \/ ~p.hasMain
  \/ p.kind # "Class"
  \/ p.generics # 0
  \/ ~p.hasMethod
  \/ ~ValidSignature(p.signature)

\* C1: codegen returns the empty byte sequence iff find_entry failed; when
\* find_entry succeeded the returned sequence is the finished buffer and holds
\* at least the 6 bytes of the header.
C1_EmptyIffEntryFailed ==
  Returned =>
    /\ Len(result) = 1
    /\ (result[1] = <<>>) <=> ~EntryFound
    /\ EntryFound =>
         /\ Len(EventsOf("finish")) = 1
         /\ result[1] = gen.code
         /\ Len(result[1]) >= 6

C1_Witness ==
  /\ Returned
  /\ EntryFound
  /\ Len(reach) > 1
  /\ Len(result[1]) >= 6

\* C2: a program that fails entry point validation gets exactly one
\* diagnostic, that of the first failing check in the order NoMainClass,
\* MainNotAClass, MainClassIsGeneric, NoMainMethod, InvalidMainSignature.
C2_OneDiagnosticOfFirstFailure ==
  (pc # "find_entry" /\ FailsValidation(prog)) =>
    /\ ~EntryFound
    /\ diags = <<FirstFailingCheck(prog)>>
    /\ lineDiags <= 1

C2_Witness ==
  /\ Returned
  /\ prog.generics # 0
  /\ prog.hasMethod
  /\ ~ValidSignature(prog.signature)
  /\ diags = <<"MainClassIsGeneric">>

\* C3: for a non-generic class Main with a method main, find_entry succeeds
\* iff main's signature has no generics, no receiver, no arguments and returns
\* unit; otherwise it reports InvalidMainSignature; on success it yields
\* (Main, main), each with the empty instantiation.
C3_SignatureDecidesEntry ==
  (pc # "find_entry" /\ prog.hasMain /\ prog.kind = "Class" /\ prog.generics = 0
     /\ prog.hasMethod) =>
    /\ EntryFound <=> ValidSignature(prog.signature)
    /\ ~EntryFound => diags = <<"InvalidMainSignature">>
    /\ EntryFound =>
         /\ diags = <<>>
         /\ entry = <<[class |-> [definition |-> 0, instantiation |-> <<>>],
                       method |-> [definition |-> 0, instantiation |-> <<>>]]>>

C3_Witness ==
  /\ Returned
  /\ prog.hasMain /\ prog.kind = "Class" /\ prog.generics = 0 /\ prog.hasMethod
  /\ prog.signature.receiver
  /\ prog.signature.generics = 0
  /\ prog.signature.arguments = 0
  /\ prog.signature.return_type = "unit"
  /\ diags = <<"InvalidMainSignature">>

\* C4: once entry point validation has passed, no step of the pipeline aborts
\* or throws, also when Main.main has no body.
C4_NoStepAborts ==
  EntryFound => (pc # "aborted" /\ fault = "")

\* The entry label of the reachability graph.
EntryLabel == reach[1].methods[1].label

\* C5: in a returned image the 32 bits at [0..4) hold the offset at which
\* Main.main's code label was bound and the 16 bits at [4..6) hold the number
\* of reachable entities, whatever that number is.
C5_HeaderFields ==
  /\ (Returned /\ EntryFound) =>
       /\ read_u32(result[1], 0) = gen.labels[EntryLabel[1]][1]
       /\ EventsFor("define_label", 0)[1].arg = read_u32(result[1], 0)
       /\ read_u16(result[1], 4) = Len(reach)
  /\ wcount # <<>> => wcount[1] = wn

\* The reachable methods, as records of the graph.
ReachableMethodInfos ==
  {reach[at.e].methods[at.m] : at \in {ReachableMethods(reach)[i] :
                                         i \in 1..Len(ReachableMethods(reach))}}

FunctionsEmitted == pc \in {"finish", "return", "done"} /\ EntryFound

\* C6: when function emission is over, every reachable method with a body has
\* had its label bound once and its body emitted once, every reachable method
\* without a body has neither, and only reachable methods have code.
C6_EmittedExactlyOnce ==
  FunctionsEmitted =>
    /\ \A mi \in ReachableMethodInfos :
         IF mi.hasBody
         THEN /\ Len(EventsFor("define_label", mi.method.definition)) = 1
              /\ Len(EventsFor("emit_function", mi.method.definition)) = 1
              /\ mi.label # <<>>
              /\ is_bound(gen, mi.label[1])
         ELSE /\ EventsFor("define_label", mi.method.definition) = <<>>
              /\ EventsFor("emit_function", mi.method.definition) = <<>>
              /\ mi.label = <<>>
    /\ \A i \in 1..Len(trace) :
         trace[i].ev \in {"define_label", "emit_function"} =>
           \E mi \in ReachableMethodInfos : mi.method.definition = trace[i].id

C6_Witness ==
  /\ Returned
  /\ EntryFound
  /\ \E mi \in ReachableMethodInfos : ~mi.hasBody
  /\ \E mi \in ReachableMethodInfos : mi.hasBody /\ mi.name = "m"
  /\ \E i \in 1..Len(prog.extras) : ~prog.extras[i].referenced

\* The offsets at which a descriptor or a method's code starts.
ValidTargets ==
  {trace[i].arg : i \in {j \in 1..Len(trace) :
                           trace[j].ev \in {"emit_descriptor", "emit_function"}}}

\* C7: at finish every label a relocation refers to is bound, and every
\* resolved 32-bit offset of the image lies inside the buffer at the start of
\* a descriptor or of a method's code.
C7_RelocationsSound ==
  /\ fault # "unbound_label"
  /\ pc = "finish" => UnboundReferences(gen) = {}
  /\ (pc \in {"return", "done"} /\ EntryFound) =>
       \A i \in 1..Len(gen.relocs) :
         /\ read_u32(gen.code, gen.relocs[i].pos) < Len(gen.code)
         /\ read_u32(gen.code, gen.relocs[i].pos) \in ValidTargets
         /\ read_u32(gen.code, gen.relocs[i].pos) = gen.labels[gen.relocs[i].label][1]

C7_Witness ==
  /\ Returned
  /\ EntryFound
  /\ selectors # <<>>
  /\ Len(gen.relocs) >= 4
  /\ \E i \in 2..Len(gen.relocs) : read_u32(result[1], gen.relocs[i].pos) > 6

\* C8: two runs of codegen on the same input yield the same bytes.  Every
\* step above is a function of (prog, state), so two runs of this module on
\* one input agree by construction; the claim is a property of pairs of runs
\* and of the iteration order of a container defined outside this file, and
\* is not stated here.

\* C9: every descriptor label is bound once, before its record is emitted, at
\* the entity's 0-based position; the indices are exactly 0..n-1, n being the
\* count written in the header.
C9_DescriptorIndices ==
  /\ (pc \in {"emit_functions", "finish", "return", "done"} /\ EntryFound) =>
       /\ Len(EventsOf("define_relocatable")) = Len(reach)
       /\ \A k \in 1..Len(reach) :
            /\ EventsOf("define_relocatable")[k] =
                 Event("define_relocatable", reach[k].entity.definition, k - 1)
            /\ gen.ordinals[reach[k].descriptor] = <<k - 1>>
            /\ \E i, j \in 1..Len(trace) :
                 /\ i < j
                 /\ trace[i] = EventsOf("define_relocatable")[k]
                 /\ trace[j].ev = "emit_descriptor"
                 /\ trace[j].id = reach[k].entity.definition
       /\ read_u16(gen.code, 4) = Len(reach)
  /\ wcount # <<>> => windex <= wcount[1]
  /\ wpc = "done" => windex = wcount[1]

Phase(ev) ==
  CASE ev = "find_entry" -> 1
    [] ev = "compute_reachability" -> 2
    [] ev = "build_selectors" -> 3
    [] ev = "emit_program_header" -> 4
    [] ev \in {"define_relocatable", "emit_descriptor"} -> 5
    [] ev \in {"define_label", "emit_function"} -> 6
    [] ev = "finish" -> 7
    [] OTHER -> 8

\* Position of entity `id` in the order of the emitted descriptors.
DescriptorPosition(id) ==
  CHOOSE k \in 1..Len(EventsOf("emit_descriptor")) : EventsOf("emit_descriptor")[k].id = id

\* C10: a successful run computes reachability, builds the selector table,
\* emits the header, all descriptors, all function bodies and finishes, in this
\* order and each once; no byte is appended before the graph and the selector
\* table are final, the table stays what was built from the completed graph,
\* descriptors precede function bodies and follow the same entity order, and
\* nothing is appended after finish.
C10_PipelineOrder ==
  /\ \A i, j \in 1..Len(trace) : i < j => Phase(trace[i].ev) <= Phase(trace[j].ev)
  /\ \A i \in 1..Len(trace) : Phase(trace[i].ev) <= 4 => trace[i].arg = 0
  /\ \A ev \in {"find_entry", "compute_reachability", "build_selectors",
                "emit_program_header", "finish", "return"} : Len(EventsOf(ev)) <= 1
  /\ EventsOf("build_selectors") # <<>> =>
       /\ EventsOf("compute_reachability") # <<>>
       /\ selectors = SelectorTable_build(reach)
       /\ reach = compute_reachability(NewGenerator, entry[1].class, entry[1].method,
                                       prog).entities
  /\ EventsOf("build_selectors") = <<>> => gen.code = <<>>
  /\ \A i, j \in 1..Len(trace) :
       (trace[i].ev = "emit_descriptor" /\ trace[j].ev = "emit_function") =>
         trace[i].arg < trace[j].arg
  /\ \A i, j \in 1..Len(EventsOf("emit_function")) :
       i < j => DescriptorPosition(EventsOf("emit_function")[i].id)
                  < DescriptorPosition(EventsOf("emit_function")[j].id)
  /\ (Returned /\ EntryFound) =>
       /\ \A ev \in {"find_entry", "compute_reachability", "build_selectors",
                     "emit_program_header", "finish", "return"} : Len(EventsOf(ev)) = 1
       /\ Len(EventsOf("emit_descriptor")) = Len(reach)
       /\ Len(result[1]) = EventsOf("finish")[1].arg
       /\ Len(gen.code) = EventsOf("finish")[1].arg

C10_Witness ==
  /\ Returned
  /\ EntryFound
  /\ selectors # <<>>
  /\ Len(EventsOf("emit_descriptor")) = 3
  /\ Len(EventsOf("emit_function")) = 2

====
